---- MODULE Spec2Model ----
(***************************************************************************)
(* A model of mini.py: the recursive walker _perform_utilproc, the four    *)
(* stage functions built on it (minify_css, minify_js, minify_html,        *)
(* gzip_content), build() and the module-level try/except around it.       *)
(*                                                                         *)
(* File and directory names are sequences of one-character strings, a path *)
(* is the sequence of names below the root that is walked (the root is     *)
(* <<>>), file contents are sequences of characters.  The interpreter is   *)
(* taken to be the one the code was written for: subprocess output is a    *)
(* byte string that str() returns unchanged and that a text file accepts.  *)
(***************************************************************************)
EXTENDS Naturals, Sequences, FiniteSets

\* Bounds of the model: entries of the tree below the root, faults of the
\* environment.
MaxEntries == 3
MaxFaults == 1

-----------------------------------------------------------------------------
(* Names, patterns and command lines of the source.                        *)

\* An optional pattern list: Python's None, or a list of patterns.
None == [some |-> FALSE, pats |-> <<>>]
Some(pats) == [some |-> TRUE, pats |-> pats]

P_css  == <<"*",".","c","s","s">>
P_js   == <<"*",".","j","s">>
P_html == <<"*",".","h","t","m","l">>
P_min  == <<"*",".","m","i","n",".","*">>
P_lib  == <<"l","i","b">>
P_libs == <<"l","i","b","s">>
P_vendor == <<"v","e","n","d","o","r">>
P_gz   == <<"*",".","g","z">>
P_jpg  == <<"*",".","j","p","g">>
P_png  == <<"*",".","p","n","g">>
P_gif  == <<"*",".","g","i","f">>
P_bmp  == <<"*",".","b","m","p">>
P_ico  == <<"*",".","i","c","o">>

MINIFY_CSS == "yuicompressor"
MINIFY_HTML == "htmlcompressor"
MINIFY_JS == "uglifyjs"
COMPRESS_FILE == "gzip"

\* fnmatch.fnmatch on a name: "*" matches any run of characters, "?" one
\* character, anything else itself; the whole name must match.
RECURSIVE FnMatch(_, _)
FnMatch(pat, name) ==
    IF pat = <<>> THEN name = <<>>
    ELSE IF Head(pat) = "*"
         THEN FnMatch(Tail(pat), name)
              \/ (name # <<>> /\ FnMatch(pat, Tail(name)))
    ELSE IF name = <<>> THEN FALSE
    ELSE (Head(pat) = "?" \/ Head(pat) = Head(name))
         /\ FnMatch(Tail(pat), Tail(name))

\* shutil.ignore_patterns(*patterns)(path, names): the names that match at
\* least one pattern.
ignore_patterns(patterns, names) ==
    {n \in names : \E j \in 1..Len(patterns) : FnMatch(patterns[j], n)}

Range(s) == {s[j] : j \in 1..Len(s)}

\* os.path.splitext on the last component of a path: the extension starts at
\* the last dot, unless only dots precede it.
LastDot(name) ==
    LET ds == {j \in 1..Len(name) : name[j] = "."}
    IN  IF ds = {} THEN 0 ELSE CHOOSE j \in ds : \A h \in ds : h <= j

splitext(name) ==
    LET d == LastDot(name)
    IN  IF d > 0 /\ \E j \in 1..(d - 1) : name[j] # "."
        THEN <<SubSeq(name, 1, d - 1), SubSeq(name, d, Len(name))>>
        ELSE <<name, <<>>>>

\* os.path.join(src, name), and the two halves of a path.
join(src, name) == Append(src, name)
basename(path) == path[Len(path)]
dirname(path) == SubSeq(path, 1, Len(path) - 1)

-----------------------------------------------------------------------------
(* The external tools and the output handlers.                             *)

\* The minifier is a black box that is only known to be deterministic: it
\* is one of two functions of the file's content, one that removes blanks
\* (running it again changes nothing) and one that also appends a banner
\* (running it again appends another).  gzip -c prefixes a header.
Strip(content) == SelectSeq(content, LAMBDA c : c # " ")
Tool(cmd, minifier, content) ==
    IF cmd = COMPRESS_FILE THEN <<"G">> \o content
    ELSE IF minifier = "strip" THEN Strip(content)
    ELSE Strip(content) \o <<"#">>

\* str(compressed_content) of a byte string.
Str(content) == content

\* content.splitlines() followed by f.write(line) for each line: the line
\* terminators are gone from what is written.
WriteLines(content) == SelectSeq(content, LAMBDA c : c # "\n")

\* minify_css.write_file / minify_js.write_file: fnp[0] + '.min' + fnp[1]
min_filename_same(filename) == filename
min_filename_suffix(filename) ==
    join(dirname(filename), basename(filename) \o <<".","m","i","n">>)
min_filename(filename) ==
    LET fnp == splitext(basename(filename))
    IN  join(dirname(filename), fnp[1] \o <<".","m","i","n">> \o fnp[2])

\* gzip_content.write_file: filename + '.gz'
gz_filename(filename) ==
    join(dirname(filename), basename(filename) \o <<".","g","z">>)

\* minify_html.write_file, called by write_handler with the file it was given
html_filename(filename) == filename

\* The file an output handler opens for writing, and what it writes there.
OutPath(on_cmd, filename) ==
    IF on_cmd = "min_write_file" THEN min_filename(filename)
    ELSE IF on_cmd = "gz_write_file" THEN gz_filename(filename)
    ELSE html_filename(filename)

OutContent(on_cmd, stdout) ==
    IF on_cmd = "min_write_file" THEN Str(stdout)
    ELSE IF on_cmd = "gz_write_file" THEN stdout
    ELSE WriteLines(stdout)

-----------------------------------------------------------------------------
(* The stage functions, as the arguments they pass to _perform_utilproc.   *)

\* ignore=['*.min.*', 'lib', 'libs', 'vendor'] of minify_css and minify_js
MinifyIgnoreNoMin == <<P_lib, P_libs, P_vendor>>
MinifyIgnore == <<P_min, P_lib, P_libs, P_vendor>>

minify_css ==
    [fn |-> "minify_css", cmd |-> MINIFY_CSS, on_cmd |-> "min_write_file",
     include |-> Some(<<P_css>>), ignore |-> Some(MinifyIgnore)]

minify_js ==
    [fn |-> "minify_js", cmd |-> MINIFY_JS, on_cmd |-> "min_write_file",
     include |-> Some(<<P_js>>), ignore |-> Some(MinifyIgnore)]

minify_html ==
    [fn |-> "minify_html", cmd |-> MINIFY_HTML, on_cmd |-> "write_handler",
     include |-> Some(<<P_html>>), ignore |-> None]

\* if not ignore: ignore = []; ignore.append('*.gz')
gzip_ignore_keep(ignore) == Some(IF ignore.some THEN ignore.pats ELSE <<>>)
gzip_ignore(ignore) ==
    Some((IF ignore.some THEN ignore.pats ELSE <<>>) \o <<P_gz>>)

gzip_content(include_files, ignore) ==
    [fn |-> "gzip_content", cmd |-> COMPRESS_FILE, on_cmd |-> "gz_write_file",
     include |-> include_files, ignore |-> gzip_ignore(ignore)]

\* A direct call of _perform_utilproc, as a caller other than the stage
\* functions would make it, with the gzip command and handler.
perform_utilproc(include, ignore) ==
    [fn |-> "_perform_utilproc", cmd |-> COMPRESS_FILE,
     on_cmd |-> "gz_write_file", include |-> include, ignore |-> ignore]

ImagePatterns == <<P_jpg, P_png, P_gif, P_bmp, P_ico>>

\* build(): the six stage calls, in the order of the body.
build_gzip_first ==
    << gzip_content(Some(<<P_css>>), None),
       gzip_content(Some(<<P_js>>), None),
       gzip_content(Some(ImagePatterns), None),
       minify_html, minify_css, minify_js >>
build ==
    << minify_html, minify_css, minify_js,
       gzip_content(Some(<<P_css>>), None),
       gzip_content(Some(<<P_js>>), None),
       gzip_content(Some(ImagePatterns), None) >>

-----------------------------------------------------------------------------
(* The file system and the environment of a run.                           *)

N_a_css     == <<"a",".","c","s","s">>
N_b_min_css == <<"b",".","m","i","n",".","c","s","s">>
N_x_js      == <<"x",".","j","s">>
N_page_html == <<"p","a","g","e",".","h","t","m","l">>
N_img_png   == <<"i","m","g",".","p","n","g">>
N_sub       == <<"s","u","b">>
N_c_css     == <<"c",".","c","s","s">>
N_deep      == <<"d","e","e","p">>
N_lib       == <<"l","i","b">>
N_v_html    == <<"v",".","h","t","m","l">>
N_o_gz      == <<"o",".","g","z">>
N_e_css     == <<"e",".","c","s","s">>

Dir(path) == [path |-> path, isdir |-> TRUE, content |-> <<>>]
File(path, content) == [path |-> path, isdir |-> FALSE, content |-> content]

\* The entries a tree below the root is drawn from.
Universe ==
    { File(<<N_a_css>>, <<"a"," ","b">>),
      File(<<N_b_min_css>>, <<"m">>),
      File(<<N_x_js>>, <<"x"," ">>),
      File(<<N_page_html>>, <<"p"," ","\n","q">>),
      File(<<N_img_png>>, <<"i">>),
      Dir(<<N_sub>>),
      File(<<N_sub, N_c_css>>, <<"c"," ">>),
      Dir(<<N_sub, N_deep>>),
      Dir(<<N_lib>>),
      File(<<N_lib, N_v_html>>, <<"v","\n","w">>),
      Dir(<<N_o_gz>>),
      File(<<N_o_gz, N_e_css>>, <<"e"," ">>) }

Root == <<>>

\* A tree: every entry but those of the root has its directory in the tree.
IsTree(S) ==
    \A e \in S : Len(e.path) > 1 => Dir(dirname(e.path)) \in S

Trees(U) == {S \in SUBSET U : IsTree(S) /\ Cardinality(S) <= MaxEntries}

MkFs(S) ==
    [dirs  |-> {Root} \cup {e.path : e \in {x \in S : x.isdir}},
     files |-> [p \in {e.path : e \in {x \in S : ~x.isdir}} |->
                  (CHOOSE e \in S : e.path = p).content]]

FilesOf(f) == DOMAIN f.files
isdir(f, path) == path \in f.dirs
EntriesOf(f, src) ==
    {basename(p) : p \in {q \in (f.dirs \cup FilesOf(f)) :
                              Len(q) = Len(src) + 1 /\ dirname(q) = src}}

\* The order in which the file system lists a directory is a property of
\* the file system: by name, ascending or descending.
Alphabet ==
    << ".", "a", "b", "c", "d", "e", "f", "g", "h", "i", "j", "k", "l", "m",
       "n", "o", "p", "q", "r", "s", "t", "u", "v", "w", "x", "y", "z" >>
CharRank(c) == CHOOSE j \in 1..Len(Alphabet) : Alphabet[j] = c

RECURSIVE NameLess(_, _)
NameLess(a, b) ==
    IF a = <<>> THEN b # <<>>
    ELSE IF b = <<>> THEN FALSE
    ELSE IF Head(a) = Head(b) THEN NameLess(Tail(a), Tail(b))
    ELSE CharRank(Head(a)) < CharRank(Head(b))

RECURSIVE Sorted(_)
Sorted(S) ==
    IF S = {} THEN <<>>
    ELSE LET m == CHOOSE x \in S : \A y \in S \ {x} : NameLess(x, y)
         IN  <<m>> \o Sorted(S \ {m})

Reverse(s) == [j \in 1..Len(s) |-> s[Len(s) + 1 - j]]

\* os.listdir(src) of a directory that can be listed.
listdir(f, order, src) ==
    IF order = "ascending" THEN Sorted(EntriesOf(f, src))
    ELSE Reverse(Sorted(EntriesOf(f, src)))

\* The faults of the environment: directories that cannot be listed, files
\* for which the command cannot be spawned, files on which the tool exits
\* with a non-zero status, files whose output cannot be opened for writing.
FaultItems(f) ==
    ({"unlistable"} \X f.dirs) \cup ({"nospawn", "nonzero", "nowrite"} \X FilesOf(f))

RECURSIVE UpTo(_, _)
UpTo(S, n) ==
    IF n = 0 THEN {{}}
    ELSE UpTo(S, n - 1) \cup {T \cup {x} : T \in UpTo(S, n - 1), x \in S}

Environments(f, minifiers, maxFaults) ==
    [faults : UpTo(FaultItems(f), maxFaults),
     order : {"ascending", "descending"},
     minifier : minifiers]

unlistable(e, src) == <<"unlistable", src>> \in e.faults
nospawn(e, srcname) == <<"nospawn", srcname>> \in e.faults
nonzero(e, srcname) == <<"nonzero", srcname>> \in e.faults
nowrite(e, srcname) == <<"nowrite", srcname>> \in e.faults

-----------------------------------------------------------------------------
(* The program.                                                            *)

VARIABLES
    fs,     \* the file system: its directories and the content of its files
    env,    \* the environment: faults, listing order, minifier
    plan,   \* the calls the top level makes, in order
    k,      \* the index in plan of the current call
    stack,  \* the activations of _perform_utilproc, innermost last
    sig,    \* what the activation that just ended handed to its caller
    pc,     \* "call", "walk", "done" or "failed"
    exc,    \* the exception that left the current stage function, or "none"
    rets,   \* what _perform_utilproc handed to each top-level caller so far
    snaps,  \* the file system at the start, and at the end of each call so far
    log     \* the events so far, in order

vars == <<fs, env, plan, k, stack, sig, pc, exc, rets, snaps, log>>

Idle == [kind |-> "idle", ok |-> TRUE, msg |-> <<>>]
\* return  (line 107)
ReturnNone == [kind |-> "None", ok |-> TRUE, msg |-> <<>>]
\* return (True, None)
ReturnOk == [kind |-> "tuple", ok |-> TRUE, msg |-> <<>>]
\* return (False, "Failed to perform util on {0}: ".format(srcname, str(err)))
ReturnFailed(srcname) == [kind |-> "tuple", ok |-> FALSE, msg |-> srcname]
\* an OSError leaving the activation
RaiseOSError(src) == [kind |-> "OSError", ok |-> FALSE, msg |-> src]

Event(op, path, out) ==
    [op |-> op, call |-> k, fn |-> plan[k].fn, cmd |-> plan[k].cmd,
     path |-> path, out |-> out]

Frame(src) ==
    [src |-> src, names |-> <<>>, include_names |-> {}, ignore_files |-> {},
     i |-> 0, listed |-> FALSE]

top == stack[Len(stack)]
cur == plan[k]
Pop == SubSeq(stack, 1, Len(stack) - 1)
SetTop(fr) == [stack EXCEPT ![Len(stack)] = fr]
name_backwards == top.names[Len(top.names) + 1 - top.i]
name == top.names[top.i]
srcname == join(top.src, name)

\* inc_p(src, names) and patterns(src, names) of lines 110-117
include_names(call, names) == ignore_patterns(call.include.pats, Range(names))
ignore_files(call, names) ==
    IF call.ignore.some THEN ignore_patterns(call.ignore.pats, Range(names))
    ELSE {}

InLoop == pc = "walk" /\ sig = Idle /\ stack # <<>> /\ top.listed
AtEntry == InLoop /\ top.i <= Len(top.names)
Advance == SetTop([top EXCEPT !.i = @ + 1])

\* Line 120: the entry is skipped as ignored.
IgnoredFilesOnly == ~isdir(fs, srcname) /\ name \in top.ignore_files
Ignored == name \in top.ignore_files

\* Lines 125-126: the entry is skipped as not included.
ExcludedDirsToo == name \notin top.include_names
Excluded == ~isdir(fs, srcname) /\ name \notin top.include_names

\* A stage function, or another caller, calls _perform_utilproc on the root.
Call ==
    /\ pc = "call"
    /\ stack' = <<Frame(Root)>>
    /\ pc' = "walk"
    /\ log' = Append(log, Event("call", Root, Root))
    /\ UNCHANGED <<fs, env, plan, k, sig, exc, rets, snaps>>

\* Lines 106-117: without include the activation returns at once, otherwise
\* it lists its directory; os.listdir is outside the try statement.
Enter ==
    /\ pc = "walk" /\ sig = Idle /\ stack # <<>> /\ ~top.listed
    /\ IF ~cur.include.some
       THEN /\ stack' = Pop
            /\ sig' = ReturnNone
            /\ log' = log
       ELSE IF unlistable(env, top.src)
       THEN /\ stack' = Pop
            /\ sig' = RaiseOSError(top.src)
            /\ log' = Append(log, Event("listdir failed", top.src, top.src))
       ELSE /\ LET names == listdir(fs, env.order, top.src)
               IN  stack' = SetTop([top EXCEPT
                       !.names = names,
                       !.include_names = include_names(cur, names),
                       !.ignore_files = ignore_files(cur, names),
                       !.i = 1, !.listed = TRUE])
            /\ sig' = sig
            /\ log' = Append(log, Event("listdir", top.src, top.src))
    /\ UNCHANGED <<fs, env, plan, k, pc, exc, rets, snaps>>

\* Lines 120-123.
SkipIgnored ==
    /\ AtEntry /\ Ignored
    /\ stack' = Advance
    /\ log' = Append(log, Event("ignored", srcname, srcname))
    /\ UNCHANGED <<fs, env, plan, k, sig, pc, exc, rets, snaps>>

\* Lines 125-129.
SkipExcluded ==
    /\ AtEntry /\ ~Ignored /\ Excluded
    /\ stack' = Advance
    /\ log' = Append(log, Event("excluded", srcname, srcname))
    /\ UNCHANGED <<fs, env, plan, k, sig, pc, exc, rets, snaps>>

\* Lines 132-138: the recursive call.
Descend ==
    /\ AtEntry /\ ~Ignored /\ ~Excluded /\ isdir(fs, srcname)
    /\ stack' = Append(stack, Frame(srcname))
    /\ log' = Append(log, Event("descend", srcname, srcname))
    /\ UNCHANGED <<fs, env, plan, k, sig, pc, exc, rets, snaps>>

\* What the caller does when the recursive call is over (lines 133-138 and
\* 158-161): TRUE when it goes on with its next entry.
ContinuesAfter(s) == s.kind # "OSError"

\* The recursive call returned or raised.
AfterRecursion ==
    /\ pc = "walk" /\ sig # Idle /\ stack # <<>>
    /\ IF ContinuesAfter(sig)
       THEN /\ stack' = Advance
            /\ sig' = Idle
            /\ log' = Append(log, Event("resume", srcname, srcname))
       ELSE /\ stack' = Pop
            /\ sig' = ReturnFailed(srcname)
            /\ log' = Append(log, Event("failed", srcname, srcname))
    /\ UNCHANGED <<fs, env, plan, k, pc, exc, rets, snaps>>

stdout == Tool(cur.cmd, env.minifier, fs.files[srcname])
WriteFile(f, path, content) ==
    [f EXCEPT !.files =
        [q \in DOMAIN f.files \cup {path} |->
            IF q = path THEN content ELSE f.files[q]]]

\* Lines 144-154 for one file: Popen raises, the tool exits with a non-zero
\* status, the handler raises on open(), or the handler writes its file.
FileOutcomeNoExitCheck(e, path) ==
    IF nospawn(e, path) THEN "popen failed"
    ELSE IF nowrite(e, path) THEN "write failed"
    ELSE "written"
FileOutcome(e, path) ==
    IF nospawn(e, path) THEN "popen failed"
    ELSE IF nonzero(e, path) THEN "error"
    ELSE IF nowrite(e, path) THEN "write failed"
    ELSE "written"

\* Lines 158-161: the outcomes that raise IOError or os.error inside the try
\* statement, on which the activation returns (False, msg).
AbortsOnError(outcome) == outcome \in {"popen failed", "write failed", "error"}
AbortsSpawnOnly(outcome) == outcome = "popen failed"
AbortsWriteOnly(outcome) == outcome = "write failed"
Aborts(outcome) == outcome \in {"popen failed", "write failed"}

\* The events of one file, by outcome.
FileEvents(outcome, path, out) ==
    IF outcome = "popen failed" THEN <<Event("popen failed", path, path)>>
    ELSE IF outcome = "error"
         THEN <<Event("popen", path, path), Event("error", path, path)>>
    ELSE IF outcome = "write failed"
         THEN <<Event("popen", path, path), Event("on_cmd", path, out)>>
    ELSE <<Event("popen", path, path), Event("on_cmd", path, out),
           Event("write", path, out)>>

\* Lines 140-161 for a file that passed the filters.
RunFile ==
    /\ AtEntry /\ ~Ignored /\ ~isdir(fs, srcname) /\ ~Excluded
    /\ LET out == OutPath(cur.on_cmd, srcname)
           outcome == FileOutcome(env, srcname)
       IN
       /\ fs' = IF outcome = "written"
                THEN WriteFile(fs, out, OutContent(cur.on_cmd, stdout))
                ELSE fs
       /\ IF Aborts(outcome)
          THEN /\ stack' = Pop
               /\ sig' = ReturnFailed(srcname)
               /\ log' = log \o FileEvents(outcome, srcname, out)
                              \o <<Event("failed", srcname, srcname)>>
          ELSE /\ stack' = Advance
               /\ sig' = sig
               /\ log' = log \o FileEvents(outcome, srcname, out)
    /\ UNCHANGED <<env, plan, k, pc, exc, rets, snaps>>

\* Line 163.
LoopEnd ==
    /\ InLoop /\ top.i > Len(top.names)
    /\ stack' = Pop
    /\ sig' = ReturnOk
    /\ log' = log
    /\ UNCHANGED <<fs, env, plan, k, pc, exc, rets, snaps>>

\* The exception that leaves the top-level caller of _perform_utilproc:
\* the stage functions unpack the result and raise Exception(err) when it
\* reports failure.
StageExcNever(fn, s) == "none"
StageExc(fn, s) ==
    IF s.kind = "OSError" THEN "OSError"
    ELSE IF fn = "_perform_utilproc" THEN "none"
    ELSE IF s.kind = "None" THEN "TypeError"
    ELSE IF ~s.ok THEN "Exception"
    ELSE "none"

\* The top-level activation is over: the caller goes on with the next call
\* of the plan, or an exception reaches the top level, which reports
\* 'Build Failed!' and makes no further call.
StageEnd ==
    /\ pc = "walk" /\ sig # Idle /\ stack = <<>>
    /\ rets' = Append(rets, sig)
    /\ snaps' = Append(snaps, fs)
    /\ sig' = Idle
    /\ exc' = StageExc(cur.fn, sig)
    /\ IF exc' # "none" THEN pc' = "failed" /\ k' = k
       ELSE IF k = Len(plan) THEN pc' = "done" /\ k' = k
       ELSE pc' = "call" /\ k' = k + 1
    /\ log' = Append(log, Event("end", Root, Root))
    /\ UNCHANGED <<fs, env, plan, stack>>

Next ==
    \/ Call
    \/ Enter
    \/ SkipIgnored
    \/ SkipExcluded
    \/ Descend
    \/ AfterRecursion
    \/ RunFile
    \/ LoopEnd
    \/ StageEnd

Start(U, plans, minifiers, maxFaults) ==
    /\ \E t \in Trees(U) : fs = MkFs(t)
    /\ env \in Environments(fs, minifiers, maxFaults)
    /\ plan \in plans
    /\ k = 1
    /\ stack = <<>>
    /\ sig = Idle
    /\ pc = "call"
    /\ exc = "none"
    /\ rets = <<>>
    /\ snaps = <<fs>>
    /\ log = <<>>

\* The program as it is run: build() on a tree that has no directory named
\* like a gzip output.
BuildUniverse == {e \in Universe : e.path[1] # N_o_gz}
Init == Start(BuildUniverse, {build}, {"stamp"}, MaxFaults)
Spec == Init /\ [][Next]_vars

\* One call of _perform_utilproc or of gzip_content, with the include and
\* ignore arguments drawn from a few pattern lists.
Includes == {None, Some(<<>>), Some(<<P_css>>), Some(<<P_css, P_html>>)}
Ignores == {None, Some(<<P_min>>), Some(<<P_min, P_lib>>)}
\* The entries of the tree that these pattern lists tell apart.
WalkUniverse == {e \in Universe : e.path[1] \notin {N_x_js, N_img_png, N_o_gz}}
InitWalk ==
    Start(WalkUniverse,
          {<<perform_utilproc(inc, ign)>> : inc \in Includes, ign \in Ignores}
          \cup {<<gzip_content(inc, None)>> : inc \in {None, Some(<<P_css>>)}},
          {"stamp"}, MaxFaults)
SpecWalk == InitWalk /\ [][Next]_vars

\* build() on any tree of the universe, without faults.
InitClean == Start(Universe, {build}, {"stamp"}, 0)
SpecClean == InitClean /\ [][Next]_vars

\* One stage function run twice on the same tree, without faults: a stage
\* of build, or gzip_content with an include that matches every name.
P_any == <<"*">>
InitTwice ==
    Start(Universe, {<<st, st>> : st \in {build[j] : j \in 1..Len(build)}
                              \cup {gzip_content(Some(<<P_any>>), None)}},
          {"strip", "stamp"}, 0)
SpecTwice == InitTwice /\ [][Next]_vars

-----------------------------------------------------------------------------
(* What the properties below speak about.                                  *)

Ended(j) == j \in 1..Len(rets)
Positions == 1..Len(log)
PathsOf(j, op) == {log[p].path : p \in {q \in Positions : log[q].call = j /\ log[q].op = op}}
Transformed(j) == PathsOf(j, "popen")
Handled(j) == PathsOf(j, "on_cmd")
Written(j) == PathsOf(j, "write")

\* No walk is under way: every walk that has begun has ended.
BetweenWalks == pc # "walk"

\* Event q is the event op of call j on path.
SameEvent(q, j, op, path) ==
    log[q].op = op /\ log[q].call = j /\ log[q].path = path

MatchesAny(opt, n) == opt.some /\ \E j \in 1..Len(opt.pats) : FnMatch(opt.pats[j], n)

\* The file's own name passes both filters.
OwnLevel(call, path) ==
    MatchesAny(call.include, basename(path)) /\ ~MatchesAny(call.ignore, basename(path))

\* No directory between the root and the file has a name that is ignored.
AncestorsKept(call, path) ==
    \A n \in 1..(Len(path) - 1) : ~MatchesAny(call.ignore, path[n])

\* The files of the tree at the start of call j that the filters let through.
Should(j) ==
    {path \in FilesOf(snaps[j]) : OwnLevel(plan[j], path) /\ AncestorsKept(plan[j], path)}

OnlyFaults(kind) == env.faults # {} /\ \A f \in env.faults : f[1] = kind

\* The events that handle an entry of a directory.
EntryOps == {"ignored", "excluded", "descend", "popen", "popen failed", "error", "on_cmd", "write"}

-----------------------------------------------------------------------------
(* C1 *)

\* C1, as stated: in a walk without faults the command is run on a file of
\* the tree exactly when the file's own name matches an include pattern and
\* no ignore pattern.
C1_OwnLevelOnly ==
    \A j \in 1..Len(rets) : env.faults = {} =>
        Transformed(j) = {path \in FilesOf(snaps[j]) : OwnLevel(plan[j], path)}

\* C1, amended: in a walk without faults the command is run on a file of the
\* tree exactly when the file's own name matches an include pattern and no
\* ignore pattern and no directory between the root and the file has a name
\* that matches an ignore pattern.
C1_FilteredAndReached ==
    \A j \in 1..Len(rets) : env.faults = {} => Transformed(j) = Should(j)

\* A finished walk without faults that ran the command on a file of a
\* subdirectory and left another file alone.
C1_Witness ==
    /\ pc = "done" /\ env.faults = {}
    /\ \E path \in Transformed(1) : Len(path) = 2
    /\ FilesOf(snaps[1]) \ Transformed(1) # {}

-----------------------------------------------------------------------------
(* C2 *)

\* C2: once an activation has returned (False, msg), the enclosing
\* activations return failure too without handling another entry, and the
\* top-level caller receives a failed outcome.
C2_FailurePropagates ==
    \A p \in Positions : log[p].op = "failed" =>
        /\ \A q \in Positions :
              (q > p /\ log[q].call = log[p].call) => log[q].op \in {"failed", "end"}
        /\ Ended(log[p].call) =>
              (rets[log[p].call].kind = "tuple" /\ ~rets[log[p].call].ok)

-----------------------------------------------------------------------------
(* C3 *)

\* C3: when the only faults are non-zero exits of the tool, the handler is
\* not called for the files concerned and writes nothing for them, every
\* other file the filters let through is transformed and handled, and the
\* walk returns (True, None).
C3_NonZeroExitIsLocal ==
    \A j \in 1..Len(rets) : (plan[j].include.some /\ OnlyFaults("nonzero")) =>
        LET failing == {path \in Should(j) : nonzero(env, path)}
        IN  /\ rets[j] = ReturnOk
            /\ Transformed(j) = Should(j)
            /\ Handled(j) = Should(j) \ failing
            /\ Written(j) = Should(j) \ failing
            /\ FilesOf(snaps[j + 1]) =
                   FilesOf(snaps[j]) \cup
                   {OutPath(plan[j].on_cmd, path) : path \in Should(j) \ failing}

\* A finished walk in which the tool failed on one file and a file handled
\* after it was written.
C3_Witness ==
    /\ pc = "done" /\ OnlyFaults("nonzero")
    /\ \E p, q \in Positions :
          /\ p < q /\ log[p].op = "error" /\ log[q].op = "write"
          /\ dirname(log[p].path) = dirname(log[q].path)

-----------------------------------------------------------------------------
(* C4 *)

MinifyFns == {"minify_html", "minify_css", "minify_js"}

-----------------------------------------------------------------------------
(* C5 *)

UnderVendored(path) ==
    \E n \in 1..(Len(path) - 1) : path[n] \in {P_lib, P_libs, P_vendor}

\* C5: no minify stage runs its command on a file named *.min.* or lying
\* under a directory lib, libs or vendor, and no gzip stage runs gzip on a
\* file named *.gz.
C5_ExcludesHonoured ==
    \A p \in Positions : log[p].op = "popen" =>
        /\ log[p].fn \in MinifyFns =>
              (~FnMatch(P_min, basename(log[p].path)) /\ ~UnderVendored(log[p].path))
        /\ log[p].fn = "gzip_content" => ~FnMatch(P_gz, basename(log[p].path))

-----------------------------------------------------------------------------
(* C6 *)

\* C6, as stated: when the only faults are write faults of the handler, the
\* walk goes on with the next entries, so that every file the filters let
\* through is transformed, and it returns (True, None).
C6_WriteFaultIsLocal ==
    \A j \in 1..Len(rets) : (plan[j].include.some /\ OnlyFaults("nowrite")) =>
        (rets[j] = ReturnOk /\ Transformed(j) = Should(j))

\* C6, amended: when the handler cannot open its output for a file, nothing
\* is written for the file and the activation that handles the file's
\* directory returns (False, msg) at once: it handles no later entry of that
\* directory, and when the directory is the root of the walk the walk's
\* outcome is that failure.
C6_WriteFaultEndsDirectory ==
    \A p \in Positions : (log[p].op = "on_cmd" /\ nowrite(env, log[p].path)) =>
        /\ log[p].path \notin Written(log[p].call)
        /\ p < Len(log) =>
              (log[p + 1].op = "failed" /\ log[p + 1].path = log[p].path)
        /\ \A q \in Positions :
              (q > p /\ log[q].call = log[p].call /\ log[q].op \in EntryOps)
                  => dirname(log[q].path) # dirname(log[p].path)
        /\ (Len(log[p].path) = 1 /\ Ended(log[p].call))
              => rets[log[p].call] = ReturnFailed(log[p].path)

\* A walk that ended in failure on a write fault in its root, with a file
\* of the root that the filters let through left untransformed.
C6_Witness ==
    /\ pc = "done" /\ OnlyFaults("nowrite")
    /\ \E path \in Handled(1) : Len(path) = 1 /\ rets[1] = ReturnFailed(path)
    /\ \E path \in Should(1) \ Transformed(1) : Len(path) = 1

-----------------------------------------------------------------------------
(* C7 *)

\* C7: when a directory cannot be listed, nothing below it is transformed
\* and the stage ends with the exception it raises from a returned
\* (False, msg).
C7_ListingFailureReported ==
    \A p \in Positions : log[p].op = "listdir failed" =>
        /\ \A path \in Transformed(log[p].call) :
              SubSeq(path, 1, Len(log[p].path)) # log[p].path
        /\ Ended(log[p].call) =>
              /\ rets[log[p].call].kind = "tuple" /\ ~rets[log[p].call].ok
              /\ exc = "Exception"

-----------------------------------------------------------------------------
(* C8 *)

\* C8: without include the walk lists nothing, runs nothing and returns
\* (True, None), and the stage that called it raises nothing.
C8_NoIncludeReturnsSuccess ==
    \A j \in 1..Len(rets) : ~plan[j].include.some =>
        /\ \A p \in Positions : log[p].call = j => log[p].op \in {"call", "end"}
        /\ rets[j] = ReturnOk
        /\ exc = "none"

-----------------------------------------------------------------------------
(* C9 *)

BuildOrder ==
    << <<"minify_html", MINIFY_HTML, <<P_html>> >>,
       <<"minify_css", MINIFY_CSS, <<P_css>> >>,
       <<"minify_js", MINIFY_JS, <<P_js>> >>,
       <<"gzip_content", COMPRESS_FILE, <<P_css>> >>,
       <<"gzip_content", COMPRESS_FILE, <<P_js>> >>,
       <<"gzip_content", COMPRESS_FILE, <<P_jpg, P_png, P_gif, P_bmp, P_ico>> >> >>

\* C9: the stages run in the order HTML, CSS, JS minify, then CSS, JS, image
\* gzip, each after the one before it has ended; once a stage has ended in
\* a failure no later stage does anything, and the failure reaches the
\* caller of build.
C9_StagesInOrder ==
    /\ \A p \in Positions :
          /\ log[p].call \in 1..Len(BuildOrder)
          /\ log[p].fn = BuildOrder[log[p].call][1]
          /\ log[p].cmd = BuildOrder[log[p].call][2]
          /\ log[p].op = "popen" =>
                \E n \in 1..Len(BuildOrder[log[p].call][3]) :
                    FnMatch(BuildOrder[log[p].call][3][n], basename(log[p].path))
          /\ p > 1 =>
                \/ log[p].call = log[p - 1].call /\ log[p - 1].op # "end"
                \/ /\ log[p].call = log[p - 1].call + 1
                   /\ log[p - 1].op = "end" /\ log[p].op = "call"
    /\ \A j \in 1..Len(rets) : rets[j] # ReturnOk =>
          /\ pc = "failed" /\ exc # "none" /\ k = j /\ Len(rets) = j
          /\ \A p \in Positions : log[p].call <= j
    /\ pc = "done" => Len(rets) = Len(BuildOrder)

\* A build that failed in a stage after the first, after an earlier stage
\* had written a file.
C9_Witness ==
    /\ pc = "failed" /\ k > 1
    /\ \E j \in 1..(k - 1) : Written(j) # {}

-----------------------------------------------------------------------------
(* C10 *)

-----------------------------------------------------------------------------
(* C11 *)

\* The events that say what the loop did with an entry.
DecisionOps == {"ignored", "excluded", "descend", "popen", "popen failed"}

\* C11: a directory that the loop comes to is descended into exactly when
\* its name matches no ignore pattern, and is skipped as ignored otherwise;
\* it is never skipped for not matching an include pattern.  When nothing
\* fails the loop comes to every directory whose parent it has listed.
C11_DirectoriesFollowIgnoreOnly ==
    /\ \A p \in Positions :
          (log[p].op \in DecisionOps /\ isdir(fs, log[p].path)) =>
              /\ log[p].op \in {"ignored", "descend"}
              /\ (log[p].op = "descend") =
                    ~MatchesAny(plan[log[p].call].ignore, basename(log[p].path))
    /\ \A j \in 1..Len(rets) : env.faults = {} =>
          \A d \in fs.dirs \ {Root} :
              (dirname(d) \in PathsOf(j, "listdir")) =>
                  (d \in PathsOf(j, "descend")) = ~MatchesAny(plan[j].ignore, basename(d))

\* A finished walk with include patterns that descended into a directory
\* whose name matches none of them, and skipped an ignored directory.
C11_Witness ==
    /\ pc = "done" /\ plan[1].include.some
    /\ \E d \in PathsOf(1, "descend") : ~MatchesAny(plan[1].include, basename(d))
    /\ \E d \in PathsOf(1, "ignored") : isdir(fs, d)

-----------------------------------------------------------------------------
(* C12 *)

\* C12: when the command cannot be spawned for a file, the handler is not
\* called for the file and the activation that handles the file's directory
\* returns (False, msg) at once: it handles no later entry of that
\* directory, and when the directory is the root of the walk the walk's
\* outcome is that failure.
C12_SpawnFaultEndsDirectory ==
    \A p \in Positions : log[p].op = "popen failed" =>
        /\ log[p].path \notin Handled(log[p].call)
        /\ log[p].path \notin Transformed(log[p].call)
        /\ p < Len(log) =>
              (log[p + 1].op = "failed" /\ log[p + 1].path = log[p].path)
        /\ \A q \in Positions :
              (q > p /\ log[q].call = log[p].call /\ log[q].op \in EntryOps)
                  => dirname(log[q].path) # dirname(log[p].path)
        /\ (Len(log[p].path) = 1 /\ Ended(log[p].call))
              => rets[log[p].call] = ReturnFailed(log[p].path)

\* A walk that ended in failure on a spawn fault in its root, with a file
\* of the root that the filters let through left untransformed.
C12_Witness ==
    /\ pc = "done" /\ OnlyFaults("nospawn")
    /\ \E path \in PathsOf(1, "popen failed") :
          Len(path) = 1 /\ rets[1] = ReturnFailed(path)
    /\ \E path \in Should(1) \ Transformed(1) :
          Len(path) = 1 /\ ~nospawn(env, path)
-----------------------------------------------------------------------------
(* C13 *)

Ext_css == <<".","c","s","s">>
Ext_js == <<".","j","s">>
Ext_min == <<".","m","i","n">>
Ext_gz == <<".","g","z">>

\* The name is stem + ext and the other name is stem + mid + ext.
Inserted(n, mid, ext, other) ==
    /\ Len(n) > Len(ext)
    /\ SubSeq(n, Len(n) - Len(ext) + 1, Len(n)) = ext
    /\ other = SubSeq(n, 1, Len(n) - Len(ext)) \o mid \o ext

OutputsOf(j) == {log[p].out : p \in {q \in Positions : log[q].call = j /\ log[q].op = "write"}}

\* C13: once the walks that have begun have ended, for every file name.ext
\* in directory d that the CSS or JS minify stage handed to its handler,
\* the handler wrote one file, d/name.min.ext, and for every file p that a
\* gzip stage handed to its handler, the handler wrote one file, p.gz, in
\* the same directory; a stage that has ended has added exactly these files
\* to the tree.
C13_OutputNames ==
    BetweenWalks =>
        /\ \A p \in Positions : log[p].op = "write" =>
              /\ \A q \in 1..(p - 1) : ~SameEvent(q, log[p].call, "write", log[p].path)
              /\ log[p].fn \in {"minify_css", "minify_js", "gzip_content"} =>
                    dirname(log[p].out) = dirname(log[p].path)
              /\ log[p].fn = "minify_css" =>
                    Inserted(basename(log[p].path), Ext_min, Ext_css, basename(log[p].out))
              /\ log[p].fn = "minify_js" =>
                    Inserted(basename(log[p].path), Ext_min, Ext_js, basename(log[p].out))
              /\ log[p].fn = "gzip_content" =>
                    basename(log[p].out) = basename(log[p].path) \o Ext_gz
        /\ \A j \in 1..Len(rets) :
              LET handled == Handled(j)
                  written == Written(j)
                  outputs == OutputsOf(j)
              IN  /\ handled \ written = {path \in handled : nowrite(env, path)}
                  /\ FilesOf(snaps[j + 1]) = FilesOf(snaps[j]) \cup outputs
                  /\ Cardinality(outputs) = Cardinality(written)
                  /\ env.faults = {} => written = Transformed(j)

\* A finished build in which the JS minify stage and a gzip stage each wrote
\* a file.
C13_Witness ==
    /\ pc = "done"
    /\ \E p, q \in Positions :
          /\ log[p].op = "write" /\ log[p].fn = "minify_js"
          /\ log[q].op = "write" /\ log[q].fn = "gzip_content"
-----------------------------------------------------------------------------
(* C14 *)

EndsWith(n, ext) ==
    Len(n) >= Len(ext) /\ SubSeq(n, Len(n) - Len(ext) + 1, Len(n)) = ext

\* C14: no gzip stage ever runs gzip on a file whose name ends in .gz and no
\* file whose name ends in .gz.gz ever appears; the second run of a gzip
\* stage transforms the files the first run transformed, writes the files
\* the first run wrote and leaves the tree as the first run left it.
C14_GzipRerun ==
    plan[1].fn = "gzip_content" =>
        /\ \A p \in Positions :
              log[p].op = "popen" => ~EndsWith(basename(log[p].path), Ext_gz)
        /\ \A path \in FilesOf(fs) : ~EndsWith(basename(path), Ext_gz \o Ext_gz)
        /\ pc = "done" =>
              /\ Transformed(2) = Transformed(1)
              /\ OutputsOf(2) = OutputsOf(1)
              /\ OutputsOf(1) = {gz_filename(path) : path \in Transformed(1)}
              /\ OutputsOf(1) \subseteq FilesOf(snaps[2])
              /\ snaps[3] = snaps[2]

\* A gzip stage has run twice, its second run listed a directory that held
\* a .gz file of the first run and wrote that file again.
C14_Witness ==
    /\ pc = "done" /\ plan[1].fn = "gzip_content"
    /\ \E p \in Positions :
          /\ log[p].call = 2 /\ log[p].op = "ignored"
          /\ log[p].path \in OutputsOf(1) \cap OutputsOf(2)
-----------------------------------------------------------------------------
(* C15 *)

IndexOf(seq, x) == CHOOSE n \in 1..Len(seq) : seq[n] = x
IsUnder(path, d) == Len(path) >= Len(d) /\ SubSeq(path, 1, Len(d)) = d

\* The position in the listing of its directory of the entry an event is
\* about.
ListingIndex(p) ==
    IndexOf(listdir(snaps[log[p].call], env.order, dirname(log[p].path)),
            basename(log[p].path))

\* C15: the entries of a directory are handled in the order of its listing;
\* once a later entry of the parent is handled, nothing more happens in a
\* directory descended into before it; every activation but the innermost
\* waits at the directory entry it descended into; and the exit status or
\* the handler call of a file follows its Popen before anything else
\* happens.
C15_SequentialDepthFirst ==
    /\ \A p \in Positions : log[p].op \in DecisionOps =>
          \A q \in (p + 1)..Len(log) :
              (/\ log[q].op \in DecisionOps /\ log[q].call = log[p].call
               /\ dirname(log[q].path) = dirname(log[p].path)) =>
                  /\ ListingIndex(p) < ListingIndex(q)
                  /\ log[p].op = "descend" =>
                        \A r \in (q + 1)..Len(log) :
                            (log[r].call = log[p].call /\ log[r].op # "end")
                                => ~IsUnder(log[r].path, log[p].path)
    /\ \A n \in 1..(Len(stack) - 1) :
          /\ stack[n].listed /\ stack[n].i \in 1..Len(stack[n].names)
          /\ stack[n + 1].src = join(stack[n].src, stack[n].names[stack[n].i])
    /\ \A p \in Positions : log[p].op = "popen" =>
          /\ p < Len(log)
          /\ log[p + 1].op \in {"error", "on_cmd"}
          /\ log[p + 1].path = log[p].path

\* A walk that descended into a directory, ran the command on a file in it
\* and then handled a later entry of the parent.
C15_Witness ==
    \E p, q, r \in Positions :
        /\ p < q /\ q < r
        /\ log[p].op = "descend"
        /\ log[q].op = "popen" /\ dirname(log[q].path) = log[p].path
        /\ log[r].op \in DecisionOps /\ dirname(log[r].path) = dirname(log[p].path)
-----------------------------------------------------------------------------
(* C16 *)

\* Within one walk that has ended: each directory is listed once, before
\* any of its entries is handled; the command is run at most once on a file; the
\* handler is called at most once for a file, right after the command has
\* exited with status zero on that same file.
OncePerFile ==
    \A p \in Positions :
        /\ log[p].op \in {"listdir", "popen", "on_cmd"} =>
              \A q \in 1..(p - 1) : ~SameEvent(q, log[p].call, log[p].op, log[p].path)
        /\ log[p].op \in DecisionOps =>
              \E q \in 1..(p - 1) :
                  SameEvent(q, log[p].call, "listdir", dirname(log[p].path))
        /\ log[p].op = "on_cmd" =>
              /\ p > 1 /\ log[p - 1].op = "popen"
              /\ log[p - 1].call = log[p].call /\ log[p - 1].path = log[p].path
              /\ ~nonzero(env, log[p].path)

-----------------------------------------------------------------------------
(* C17 *)

\* The file holds what gzip -c makes of the content of the other file.
IsGzipOf(gz, path) ==
    /\ gz \in FilesOf(fs) /\ path \in FilesOf(fs)
    /\ fs.files[gz] = Tool(COMPRESS_FILE, env.minifier, fs.files[path])

MinifiedCssJs ==
    UNION {Transformed(j) : j \in {n \in 1..Len(rets) : plan[n].fn \in {"minify_css", "minify_js"}}}

\* C17, as stated: after a build without faults, every CSS or JS file f
\* that a minify stage transformed has its gzip copy f.gz, and its minified
\* sibling has its gzip copy too.
C17_EveryMinifiedFileGzipped ==
    (pc = "done" /\ env.faults = {}) =>
        \A f \in MinifiedCssJs :
            /\ IsGzipOf(gz_filename(f), f)
            /\ IsGzipOf(gz_filename(min_filename(f)), min_filename(f))

\* C17, amended: after a build without faults, every CSS or JS file f that
\* a minify stage transformed and that lies under no directory whose name
\* matches *.gz has its gzip copy f.gz, and its minified sibling has its
\* gzip copy too; under a directory named *.gz the gzip stages, which
\* ignore *.gz for directories as well, write nothing.
C17_MinifiedFilesGzipped ==
    (pc = "done" /\ env.faults = {}) =>
        \A f \in MinifiedCssJs :
            IF \A n \in 1..(Len(f) - 1) : ~FnMatch(P_gz, f[n])
            THEN /\ IsGzipOf(gz_filename(f), f)
                 /\ IsGzipOf(gz_filename(min_filename(f)), min_filename(f))
            ELSE /\ min_filename(f) \in FilesOf(fs)
                 /\ gz_filename(f) \notin FilesOf(fs)
                 /\ gz_filename(min_filename(f)) \notin FilesOf(fs)

\* A finished build without faults whose CSS and JS minify stages each
\* transformed a file.
C17_Witness ==
    /\ pc = "done" /\ env.faults = {}
    /\ Transformed(2) # {} /\ Transformed(3) # {}
====
